---- MODULE Spec2Model ----
(***************************************************************************)
(* A model of the Ragie RAG agent: the FastAPI handlers of app/main.py     *)
(* (/query, /upload, /documents) and the functions of app/ragie_client.py  *)
(* they call (retrieve_chunks, generate_response, upload_document,         *)
(* list_documents).  The retrieval service and the language model are the  *)
(* environment: their replies are chosen nondeterministically.             *)
(*                                                                         *)
(* Strings are sequences of one-character strings, so that concatenation,  *)
(* slicing and splitting are computed as Python computes them.  A JSON     *)
(* value is a record [t, s, n]: t is its type, s its characters when it is *)
(* a string, n its value when it is a number.  A JSON object is a function *)
(* whose DOMAIN is the set of keys it has.                                 *)
(***************************************************************************)
EXTENDS Integers, Sequences, FiniteSets, TLC

\* ------------------------------------------------------------- bounds
\* The longest chunk list a reply of the retrieval service holds.
MaxChunks == 2
\* The number of requests in flight at once in SpecConc.
NumRequests == 2
\* SpecPreview draws passage lengths from 0 to PreviewBudget + MaxOver,
MaxOver == 5
\* and one very long passage.
HugeLen == 10000

\* ------------------------------------------------- program constants
\* top_k: int = 8
DefaultTopK == 8
\* chunk.get("text", "")[:100]
PreviewBudget == 100

\* ------------------------------------------------------- JSON values
Str(s) == [t |-> "str", s |-> s, n |-> 0]
Num(n) == [t |-> "num", s |-> <<>>, n |-> n]
Null == [t |-> "null", s |-> <<>>, n |-> 0]

\* The object with no key.
EmptyObj == [k \in {} |-> Null]

\* dict.get(key, default)
Get(d, key, default) == IF key \in DOMAIN d THEN d[key] ELSE default

Min(a, b) == IF a <= b THEN a ELSE b

\* s[:n]
Take(s, n) == SubSeq(s, 1, Min(n, Len(s)))

Digit(d) == CASE d = 0 -> "0" [] d = 1 -> "1" [] d = 2 -> "2" [] d = 3 -> "3"
              [] d = 4 -> "4" [] d = 5 -> "5" [] d = 6 -> "6" [] d = 7 -> "7"
              [] d = 8 -> "8" [] d = 9 -> "9"

RECURSIVE IntToStr(_)
\* str(n) of a natural number, as an f-string renders it.
IntToStr(n) == IF n < 10 THEN <<Digit(n)>> ELSE IntToStr(n \div 10) \o <<Digit(n % 10)>>

\* The text an f-string renders for a JSON value.
Format(v) == CASE v.t = "str" -> v.s
               [] v.t = "num" -> IntToStr(v.n)
               [] v.t = "null" -> <<"N", "o", "n", "e">>

\* ------------------------------------------------- tenant namespacing
ClientPrefix == <<"c", "l", "i", "e", "n", "t", "_">>

\* A scope that forgets the client id.
ScopeShared(client_id) == ClientPrefix

\* A scope that keeps only the first character of the client id.
ScopeFirstChar(client_id) == ClientPrefix \o Take(client_id, 1)

\* partition = f"client_{client_id}"
Scope(client_id) == ClientPrefix \o client_id

\* ------------------------------------------------------------ chunks
Ellipsis == <<".", ".", ".">>
NotAvailable == Str(<<"N", "/", "A">>)

\* A passage text one character longer than the preview budget.
LongText == [i \in 1..(PreviewBudget + 1) |-> IF i <= PreviewBudget THEN "x" ELSE "y"]

D1 == Str(<<"d", "1">>)
D2 == Str(<<"d", "2">>)

\* A complete chunk.
ChunkFull ==
  [text |-> Str(<<"a", "b", "c">>), document_id |-> D1, chunk_id |-> Str(<<"k", "1">>),
   page_number |-> Str(<<"3">>), score |-> Num(5)]
\* A long chunk with no page_number key, scored above ChunkFull.
ChunkLong ==
  [text |-> Str(LongText), document_id |-> D2, chunk_id |-> Str(<<"k", "2">>),
   score |-> Num(9)]
\* An empty text and a page_number that is null.
ChunkNullPage ==
  [text |-> Str(<<>>), document_id |-> D1, chunk_id |-> Str(<<"k", "3">>),
   page_number |-> Null, score |-> Num(7)]
\* No text, no score, no document_id; a blank page_number.
ChunkBare == [chunk_id |-> Str(<<"k", "4">>), page_number |-> Str(<<>>)]
\* A text that is null.
ChunkNullText ==
  [text |-> Null, document_id |-> D2, chunk_id |-> Str(<<"k", "5">>), score |-> Num(1)]

ChunkPool == {ChunkFull, ChunkLong, ChunkNullPage, ChunkBare, ChunkNullText}

\* The sequences over S of length at most n.
SeqsUpTo(S, n) == UNION {[1..m -> S] : m \in 0..n}

\* A JSON array, or null where an array is expected.
JList(items) == [t |-> "list", items |-> items]
JNull == [t |-> "null", items |-> <<>>]

\* ------------------------------------------------ the retrieval reply
\* JSON objects with the keys "chunks" and "scored_chunks", each present or not.
ResultDicts(Lists, Others) ==
  {EmptyObj}
    \cup {("chunks" :> v) : v \in Lists}
    \cup {("scored_chunks" :> v) : v \in Lists}
    \cup {("chunks" :> v) @@ ("scored_chunks" :> w) : v \in Lists, w \in Others}

\* What requests.post(url, json=payload, headers=headers) can give: a network
\* error, a non-2xx status, a body that is no JSON, or a JSON body that is an
\* object, an array, a string or a scalar (number, boolean, null).
RetrievalReplies(Lists, Others) ==
  {[kind |-> k, json |-> EmptyObj] :
      k \in {"neterr", "httperr", "badjson", "list", "string", "scalar"}}
    \cup {[kind |-> "dict", json |-> d] : d \in ResultDicts(Lists, Others)}

\* ------------------------------------------------- retrieve_chunks
\* The payload of the retrieval call.
retrieve_payload(query, client_id, top_k) ==
  [svc |-> "retrievals", client |-> client_id, partition |-> Scope(client_id),
   query |-> query, top_k |-> top_k, file |-> "none", context |-> <<>>,
   reply |-> "pending"]

\* return {"chunks": []}
EmptyResult == [kind |-> "dict", json |-> ("chunks" :> JList(<<>>))]

\* A retrieve_chunks that lets the failure of the call escape.
retrieve_chunks_raising(reply) ==
  IF reply.kind \in {"neterr", "httperr", "badjson", "scalar"}
  THEN [kind |-> "raise", json |-> EmptyObj]
  ELSE reply

\* A retrieve_chunks that returns scored_chunks after chunks.
retrieve_chunks_joined(reply) ==
  IF reply.kind # "dict" THEN EmptyResult
  ELSE [kind |-> "dict",
        json |-> ("chunks" :>
           JList(Get(reply.json, "chunks", JNull).items
                   \o Get(reply.json, "scored_chunks", JNull).items))]

\* The value retrieve_chunks returns, given what the call gave.  post(),
\* raise_for_status() and json() raise inside the try, and so does the test
\* "scored_chunks" in result on a scalar; an array or a string is returned
\* as it is.
retrieve_chunks(reply) ==
  IF reply.kind \in {"neterr", "httperr", "badjson", "scalar"} THEN EmptyResult
  ELSE IF reply.kind \in {"list", "string"} THEN reply
  ELSE IF "scored_chunks" \in DOMAIN reply.json /\ "chunks" \notin DOMAIN reply.json
       THEN [kind |-> "dict",
             json |-> reply.json @@ ("chunks" :> reply.json["scored_chunks"])]
       ELSE reply

\* retrieval_result.get(...) raises on a value that is no dict, and so does
\* retrieve_chunks when it lets an exception through.
get_chunks_raises(result) == result.kind # "dict"

\* retrieval_result.get("chunks", retrieval_result.get("scored_chunks", []))
get_chunks(result) ==
  Get(result.json, "chunks", Get(result.json, "scored_chunks", JList(<<>>)))

\* A test that lets an empty list through.
not_chunks_null_only(chunks) == chunks.t = "null"

\* not chunks
not_chunks(chunks) == chunks.t = "null" \/ Len(chunks.items) = 0

\* ------------------------------------------------- generate_response
chunk_text(chunk) == Get(chunk, "text", Str(<<>>))

\* chunk.get("text", "")[:100] raises when the text is no string.
citation_raises(chunk) == chunk_text(chunk).t # "str"

\* A context block numbered from 0, as enumerate counts.
context_part_from_zero(i, chunk) ==
  <<"[">> \o IntToStr(i - 1) \o <<"]", " ">> \o Format(chunk_text(chunk))

\* f"[{i+1}] {chunk.get('text', '')}"
context_part(i, chunk) == <<"[">> \o IntToStr(i) \o <<"]", " ">> \o Format(chunk_text(chunk))

\* chunk.get("page_number", "N/A")
citation_page(chunk) == Get(chunk, "page_number", NotAvailable)

\* A citation whose preview is the whole text.
citation_untruncated(i, chunk) ==
  [id |-> i,
   document_id |-> Get(chunk, "document_id", Null),
   chunk_id |-> Get(chunk, "chunk_id", Null),
   text |-> Str(chunk_text(chunk).s \o Ellipsis),
   page_number |-> citation_page(chunk),
   score |-> Get(chunk, "score", Num(0))]

\* A citation that appends the marker only to a text it cut.
citation_marker_if_cut(i, chunk) ==
  [id |-> i,
   document_id |-> Get(chunk, "document_id", Null),
   chunk_id |-> Get(chunk, "chunk_id", Null),
   text |-> Str(IF Len(chunk_text(chunk).s) > PreviewBudget
                THEN Take(chunk_text(chunk).s, PreviewBudget) \o Ellipsis
                ELSE chunk_text(chunk).s),
   page_number |-> citation_page(chunk),
   score |-> Get(chunk, "score", Num(0))]

\* The citation of the chunk at position i (1-based).
citation(i, chunk) ==
  [id |-> i,
   document_id |-> Get(chunk, "document_id", Null),
   chunk_id |-> Get(chunk, "chunk_id", Null),
   text |-> Str(Take(chunk_text(chunk).s, PreviewBudget) \o Ellipsis),
   page_number |-> citation_page(chunk),
   score |-> Get(chunk, "score", Num(0))]

context_parts(chunks) == [i \in 1..Len(chunks) |-> context_part(i, chunks[i])]

\* Citations sorted by falling score (for two chunks: swapped when the second
\* scores higher), numbered after sorting.
citations_sorted(chunks) ==
  LET sc(c) == Get(c, "score", Num(0)).n
      sorted == IF Len(chunks) >= 2 /\ sc(chunks[2]) > sc(chunks[1])
                THEN <<chunks[2], chunks[1]>> \o SubSeq(chunks, 3, Len(chunks))
                ELSE chunks
  IN [i \in 1..Len(chunks) |-> citation(i, sorted[i])]

\* The citations list the loop builds.
citations_of(chunks) == [i \in 1..Len(chunks) |-> citation(i, chunks[i])]

generate_raises(chunks) == \E i \in 1..Len(chunks) : citation_raises(chunks[i])

SystemPrompt == "answer from the context, cite as [n], say when the answer is not there"

\* A completion call whose system instruction quotes the question.
completion_call_quoting(client_id, query, chunks) ==
  [svc |-> "openai", client |-> client_id, partition |-> <<>>, query |-> query,
   top_k |-> 0, file |-> IF query = <<>> THEN SystemPrompt ELSE "answer the question q",
   context |-> context_parts(chunks), reply |-> "pending"]

\* The completion call: the system prompt (in the field file), and the user
\* prompt's two parts, the context blocks and the question.
completion_call(client_id, query, chunks) ==
  [svc |-> "openai", client |-> client_id, partition |-> <<>>, query |-> query,
   top_k |-> 0, file |-> SystemPrompt, context |-> context_parts(chunks),
   reply |-> "pending"]

\* What openai_client.chat.completions.create can give: an exception, a
\* response with no choice, or a first choice whose content is a text or null.
Completion(kind, content) == [kind |-> kind, content |-> content]

\* A handler that answers a failed completion with an empty answer.
completion_response_default(completion, cits) ==
  IF completion.kind \in {"error", "nochoices"}
  THEN [status |-> 200, kind |-> "answer", answer |-> Str(<<>>), citations |-> <<>>,
        documents |-> <<>>, detail |-> "none"]
  ELSE [status |-> 200, kind |-> "answer", answer |-> completion.content,
        citations |-> cits, documents |-> <<>>, detail |-> "none"]

\* What /query answers once the completion call has ended: create() raising,
\* or response.choices[0] raising on an empty list, reaches the handler's
\* except Exception and becomes HTTPException(500); otherwise the handler
\* returns generate_response's {"answer": answer, "citations": citations}.
completion_response(completion, cits) ==
  IF completion.kind \in {"error", "nochoices"}
  THEN [status |-> 500, kind |-> "error", answer |-> Null, citations |-> <<>>,
        documents |-> <<>>, detail |-> "completion"]
  ELSE [status |-> 200, kind |-> "answer", answer |-> completion.content,
        citations |-> cits, documents |-> <<>>, detail |-> "none"]

\* ------------------------------------------------------------ /upload
LowerChar(c) == CASE c = "P" -> "p" [] c = "D" -> "d" [] c = "F" -> "f" [] OTHER -> c

\* s.lower()
Lower(s) == [i \in 1..Len(s) |-> LowerChar(s[i])]

\* s.split(".")[-1]
LastSegment(s) ==
  LET dots == {i \in 1..Len(s) : s[i] = "."}
      last == IF dots = {} THEN 0 ELSE CHOOSE i \in dots : \A j \in dots : j <= i
  IN SubSeq(s, last + 1, Len(s))

\* file.filename.split(".")[-1].lower()
file_extension(filename) == Lower(LastSegment(filename))

\* ["pdf", "docx", "csv", "txt"]
SupportedTypes ==
  {<<"p", "d", "f">>, <<"d", "o", "c", "x">>, <<"c", "s", "v">>, <<"t", "x", "t">>}

\* The form of the upload call; file is the file object or the raw bytes.
upload_payload(file, client_id) ==
  [svc |-> "documents.post", client |-> client_id, partition |-> Scope(client_id),
   query |-> <<>>, top_k |-> 0, file |-> file, context |-> <<>>, reply |-> "pending"]

\* upload_document raises when post(), raise_for_status() or json() raises.
upload_raises(reply) == reply \in {"neterr", "httperr", "badjson"}

UploadReplies == {"ok", "neterr", "httperr", "badjson"}

\* --------------------------------------------------------- /documents
\* The headers of the listing call.
list_payload(client_id) ==
  [svc |-> "documents.get", client |-> client_id, partition |-> Scope(client_id),
   query |-> <<>>, top_k |-> 0, file |-> "none", context |-> <<>>, reply |-> "pending"]

\* What list_documents returns: the array, the "documents" of an object, the
\* object itself as the only document, and [] for anything else or a failure.
list_documents(reply) ==
  CASE reply.kind = "list" -> reply.docs
    [] reply.kind = "dict_documents" -> reply.docs
    [] reply.kind = "dict" -> <<"object">>
    [] OTHER -> <<>>

ListReplies ==
  {[kind |-> k, docs |-> <<>>] : k \in {"neterr", "httperr", "badjson", "scalar", "dict"}}
    \cup {[kind |-> k, docs |-> d] :
            k \in {"list", "dict_documents"}, d \in {<<>>, <<"doc1">>, <<"doc1", "doc2">>}}

\* ------------------------------------------------------------- state
Slots == 1..NumRequests

VARIABLES
  cfgOk,      \* validate_config()'s verdict on the environment of the process
  pc,         \* where each request stands
  req,        \* each request: its endpoint and the fields its body has
  calls,      \* each request's calls to the two services, in order
  retrieval,  \* what the retrieval call of each /query gave
  chunks,     \* the chunks /query took from retrieve_chunks' result
  citations,  \* the citations generate_response built
  resp        \* the HTTP response of each request

vars == <<cfgOk, pc, req, calls, retrieval, chunks, citations, resp>>

NoRequest == [endpoint |-> "none", body |-> EmptyObj]
NoReply == [kind |-> "none", json |-> EmptyObj]
Unset == [t |-> "unset", items |-> <<>>]
NoResponse ==
  [status |-> 0, kind |-> "none", answer |-> Null, citations |-> <<>>,
   documents |-> <<>>, detail |-> "none"]

HTTPException(status, detail) ==
  [status |-> status, kind |-> "error", answer |-> Null, citations |-> <<>>,
   documents |-> <<>>, detail |-> detail]

Init ==
  /\ cfgOk \in BOOLEAN
  /\ pc = [r \in Slots |-> "idle"]
  /\ req = [r \in Slots |-> NoRequest]
  /\ calls = [r \in Slots |-> <<>>]
  /\ retrieval = [r \in Slots |-> NoReply]
  /\ chunks = [r \in Slots |-> Unset]
  /\ citations = [r \in Slots |-> <<>>]
  /\ resp = [r \in Slots |-> NoResponse]

\* The request ends with this response.
Respond(r, response) ==
  /\ pc' = [pc EXCEPT ![r] = "done"]
  /\ resp' = [resp EXCEPT ![r] = response]

\* The last call of the request got this reply.
Replied(r, kind) == [calls[r] EXCEPT ![Len(calls[r])].reply = kind]

\* The QueryRequest pydantic builds from a body: query and client_id are
\* required, top_k defaults to 8.
QueryRequest(body) ==
  [query |-> body["query"], client_id |-> body["client_id"],
   top_k |-> IF "top_k" \in DOMAIN body THEN body["top_k"] ELSE DefaultTopK]

\* A body pydantic accepts as a QueryRequest.
QueryRequestValid(body) == {"query", "client_id"} \subseteq DOMAIN body

\* The canned answer of /query.
NoInfoText ==
  <<"N", "o", " ", "r", "e", "l", "e", "v", "a", "n", "t", " ", "i", "n", "f", "o",
    "r", "m", "a", "t", "i", "o", "n", " ", "f", "o", "u", "n", "d", " ", "f", "o",
    "r", " ", "y", "o", "u", "r", " ", "q", "u", "e", "r", "y", ".">>

NoInfoResponse ==
  [status |-> 200, kind |-> "answer", answer |-> Str(NoInfoText), citations |-> <<>>,
   documents |-> <<>>, detail |-> "none"]

\* ------------------------------------------------------------- /query
\* A /query request arrives.  The verify_config dependency answers 500 on a
\* bad configuration, FastAPI answers 422 to a body that is no QueryRequest;
\* otherwise the handler runs up to retrieve_chunks' call of the service.
ReceiveQuery(r, Bodies) ==
  /\ pc[r] = "idle"
  /\ \E body \in Bodies :
       /\ req' = [req EXCEPT ![r] = [endpoint |-> "query", body |-> body]]
       /\ IF ~cfgOk
          THEN Respond(r, HTTPException(500, "configuration")) /\ UNCHANGED calls
          ELSE IF ~QueryRequestValid(body)
          THEN Respond(r, HTTPException(422, "validation")) /\ UNCHANGED calls
          ELSE LET request == QueryRequest(body)
               IN /\ calls' = [calls EXCEPT ![r] = Append(@,
                        retrieve_payload(request.query, request.client_id, request.top_k))]
                  /\ pc' = [pc EXCEPT ![r] = "retrieving"]
                  /\ UNCHANGED resp
  /\ UNCHANGED <<cfgOk, retrieval, chunks, citations>>

\* The retrieval call ends.  retrieve_chunks returns, the handler takes the
\* chunks and either answers (no chunk: the canned answer; an exception: 500)
\* or runs generate_response up to the completion call.
RetrieveReply(r, Replies) ==
  /\ pc[r] = "retrieving"
  /\ \E reply \in Replies :
       LET request == QueryRequest(req[r].body)
           result == retrieve_chunks(reply)
           got == IF get_chunks_raises(result) THEN Unset ELSE get_chunks(result)
           replied == Replied(r, reply.kind)
       IN /\ retrieval' = [retrieval EXCEPT ![r] = reply]
          /\ chunks' = [chunks EXCEPT ![r] = got]
          /\ IF get_chunks_raises(result)
             THEN /\ Respond(r, HTTPException(500, "retrieval result"))
                  /\ calls' = [calls EXCEPT ![r] = replied]
                  /\ UNCHANGED citations
             ELSE IF not_chunks(got)
             THEN /\ Respond(r, NoInfoResponse)
                  /\ calls' = [calls EXCEPT ![r] = replied]
                  /\ UNCHANGED citations
             ELSE IF generate_raises(got.items)
             THEN /\ Respond(r, HTTPException(500, "citation"))
                  /\ calls' = [calls EXCEPT ![r] = replied]
                  /\ UNCHANGED citations
             ELSE /\ citations' = [citations EXCEPT ![r] = citations_of(got.items)]
                  /\ calls' = [calls EXCEPT ![r] = Append(replied,
                        completion_call(request.client_id, request.query, got.items))]
                  /\ pc' = [pc EXCEPT ![r] = "completing"]
                  /\ UNCHANGED resp
  /\ UNCHANGED <<cfgOk, req>>

\* A handler that answers with a citation list kept at module level, which
\* any request in flight may have filled last.
CompletionReply_shared(r, Completions) ==
  /\ pc[r] = "completing"
  /\ \E completion \in Completions : \E o \in {x \in 1..NumRequests : citations[x] # <<>>} :
       /\ calls' = [calls EXCEPT ![r] = Replied(r, completion.kind)]
       /\ Respond(r, completion_response(completion, citations[o]))
  /\ UNCHANGED <<cfgOk, req, retrieval, chunks, citations>>

\* The completion call ends and /query answers.
CompletionReply(r, Completions) ==
  /\ pc[r] = "completing"
  /\ \E completion \in Completions :
       /\ calls' = [calls EXCEPT ![r] = Replied(r, completion.kind)]
       /\ Respond(r, completion_response(completion, citations[r]))
  /\ UNCHANGED <<cfgOk, req, retrieval, chunks, citations>>

\* ------------------------------------------------------------ /upload
\* The form of an upload FastAPI accepts: a file and a client_id.
UploadValid(body) == {"filename", "client_id"} \subseteq DOMAIN body

\* An /upload request arrives.  The HTTPException(400) of an unsupported type
\* is raised inside the handler's try and caught by its except Exception,
\* which raises HTTPException(500, detail=str(e)).
ReceiveUpload(r, Bodies) ==
  /\ pc[r] = "idle"
  /\ \E body \in Bodies :
       /\ req' = [req EXCEPT ![r] = [endpoint |-> "upload", body |-> body]]
       /\ IF ~cfgOk
          THEN Respond(r, HTTPException(500, "configuration")) /\ UNCHANGED calls
          ELSE IF ~UploadValid(body)
          THEN Respond(r, HTTPException(422, "validation")) /\ UNCHANGED calls
          ELSE IF file_extension(body["filename"]) \notin SupportedTypes
          THEN Respond(r, HTTPException(500, "400: Unsupported file type"))
                 /\ UNCHANGED calls
          ELSE /\ calls' = [calls EXCEPT ![r] =
                              Append(@, upload_payload("file object", body["client_id"]))]
               /\ pc' = [pc EXCEPT ![r] = "uploading"]
               /\ UNCHANGED resp
  /\ UNCHANGED <<cfgOk, retrieval, chunks, citations>>

UploadResponse ==
  [status |-> 200, kind |-> "upload", answer |-> Null, citations |-> <<>>,
   documents |-> <<>>, detail |-> "none"]

\* The first upload call ends: the handler returns its response, or catches
\* its exception and calls upload_document again with the raw bytes.
UploadReply(r, Replies) ==
  /\ pc[r] = "uploading"
  /\ \E reply \in Replies :
       IF upload_raises(reply)
       THEN /\ calls' = [calls EXCEPT ![r] = Append(Replied(r, reply),
                           upload_payload("raw bytes", req[r].body["client_id"]))]
            /\ pc' = [pc EXCEPT ![r] = "uploading again"]
            /\ UNCHANGED resp
       ELSE /\ calls' = [calls EXCEPT ![r] = Replied(r, reply)]
            /\ Respond(r, UploadResponse)
  /\ UNCHANGED <<cfgOk, req, retrieval, chunks, citations>>

\* A handler that uploads the raw bytes again each time the call fails.
UploadAgainReply_retrying(r, Replies) ==
  /\ pc[r] = "uploading again"
  /\ \E reply \in Replies :
       IF upload_raises(reply)
       THEN /\ calls' = [calls EXCEPT ![r] = Append(Replied(r, reply),
                           upload_payload("raw bytes", req[r].body["client_id"]))]
            /\ UNCHANGED <<pc, resp>>
       ELSE /\ calls' = [calls EXCEPT ![r] = Replied(r, reply)]
            /\ Respond(r, UploadResponse)
  /\ UNCHANGED <<cfgOk, req, retrieval, chunks, citations>>

\* The second upload call ends: its exception reaches the outer except.
UploadAgainReply(r, Replies) ==
  /\ pc[r] = "uploading again"
  /\ \E reply \in Replies :
       /\ calls' = [calls EXCEPT ![r] = Replied(r, reply)]
       /\ IF upload_raises(reply)
          THEN Respond(r, HTTPException(500, "upload"))
          ELSE Respond(r, UploadResponse)
  /\ UNCHANGED <<cfgOk, req, retrieval, chunks, citations>>

\* --------------------------------------------------------- /documents
\* A /documents request arrives (no verify_config on this route).
ReceiveDocuments(r, Bodies) ==
  /\ pc[r] = "idle"
  /\ \E body \in Bodies :
       /\ req' = [req EXCEPT ![r] = [endpoint |-> "documents", body |-> body]]
       /\ IF "client_id" \notin DOMAIN body
          THEN Respond(r, HTTPException(422, "validation")) /\ UNCHANGED calls
          ELSE /\ calls' = [calls EXCEPT ![r] = Append(@, list_payload(body["client_id"]))]
               /\ pc' = [pc EXCEPT ![r] = "listing"]
               /\ UNCHANGED resp
  /\ UNCHANGED <<cfgOk, retrieval, chunks, citations>>

\* The listing call ends and /documents answers {"documents": documents}.
ListReply(r, Replies) ==
  /\ pc[r] = "listing"
  /\ \E reply \in Replies :
       /\ calls' = [calls EXCEPT ![r] = Replied(r, reply.kind)]
       /\ Respond(r, [status |-> 200, kind |-> "documents", answer |-> Null,
                      citations |-> <<>>, documents |-> list_documents(reply),
                      detail |-> "none"])
  /\ UNCHANGED <<cfgOk, req, retrieval, chunks, citations>>

\* ---------------------------------------------------- the environment
\* A field a body may lack.
Opt(key, Values) == {EmptyObj} \cup {(key :> v) : v \in Values}

\* A field every body has.
Req(key, Values) == {(key :> v) : v \in Values}

\* One request at a time, over every shape of body and reply.
QueryBodies ==
  {q @@ c @@ k : q \in Opt("query", {<<>>, <<"q">>}), c \in Opt("client_id", {<<"a">>}),
                 k \in Opt("top_k", {1, 2})}

UploadBodies ==
  {f @@ c : f \in Opt("filename", {<<"a", ".", "p", "d", "f">>, <<"a", ".", "P", "D", "F">>,
                                   <<"a", ".", "e", "x", "e">>, <<"p", "d", "f">>,
                                   <<"a", ".", "t", "x", "t", ".", "e", "x", "e">>}),
            c \in Opt("client_id", {<<"a">>})}

DocumentsBodies == Opt("client_id", {<<"a">>})

ChunkLists == {JNull} \cup {JList(l) : l \in SeqsUpTo(ChunkPool, MaxChunks)}

QueryReplies == RetrievalReplies(ChunkLists, {JList(<<>>), JList(<<ChunkFull>>)})

Completions ==
  {Completion("error", Null), Completion("nochoices", Null), Completion("content", Null)}
    \cup {Completion("content", Str(a)) :
            a \in {<<"o", "k">>, <<"[", "1", "]">>, <<"a", " ", "[", "1", "]", "[", "2", "]">>,
                   <<"[", "0", "]">>, <<"s", "e", "e", " ", "[", "1", "2", "]">>}}

Query == \E r \in {1} : ReceiveQuery(r, QueryBodies)
Retrieved == \E r \in {1} : RetrieveReply(r, QueryReplies)
Completed == \E r \in {1} : CompletionReply(r, Completions)
Upload == \E r \in {1} : ReceiveUpload(r, UploadBodies)
Uploaded == \E r \in {1} : UploadReply(r, UploadReplies)
UploadedAgain == \E r \in {1} : UploadAgainReply(r, UploadReplies)
Documents == \E r \in {1} : ReceiveDocuments(r, DocumentsBodies)
Listed == \E r \in {1} : ListReply(r, ListReplies)

Next ==
  \/ Query \/ Retrieved \/ Completed
  \/ Upload \/ Uploaded \/ UploadedAgain
  \/ Documents \/ Listed

Spec == Init /\ [][Next]_vars

\* Several requests in flight, from several clients, over a few replies.
ConcClients == {<<"a">>, <<"b">>, <<"a", "b">>}

ConcQueryBodies ==
  {q @@ c @@ k : q \in Req("query", {<<"q">>}), c \in Req("client_id", ConcClients),
                 k \in Req("top_k", {1})}

ConcUploadBodies ==
  {f @@ c : f \in Req("filename", {<<"a", ".", "p", "d", "f">>}),
            c \in Req("client_id", ConcClients)}

ConcDocumentsBodies == Req("client_id", ConcClients)

ConcQueryReplies ==
  {[kind |-> "neterr", json |-> EmptyObj],
   [kind |-> "dict", json |-> ("chunks" :> JList(<<ChunkFull>>))],
   [kind |-> "dict", json |-> ("scored_chunks" :> JList(<<ChunkLong, ChunkFull>>))]}

ConcCompletions == {Completion("error", Null), Completion("content", Str(<<"[", "1", "]">>))}

ConcUploadReplies == {"ok", "neterr"}

ConcListReplies == {[kind |-> "neterr", docs |-> <<>>], [kind |-> "list", docs |-> <<"doc1">>]}

ConcQuery == \E r \in Slots : ReceiveQuery(r, ConcQueryBodies)
ConcRetrieved == \E r \in Slots : RetrieveReply(r, ConcQueryReplies)
ConcCompleted == \E r \in Slots : CompletionReply(r, ConcCompletions)
ConcUpload == \E r \in Slots : ReceiveUpload(r, ConcUploadBodies)
ConcUploaded == \E r \in Slots : UploadReply(r, ConcUploadReplies)
ConcUploadedAgain == \E r \in Slots : UploadAgainReply(r, ConcUploadReplies)
ConcDocuments == \E r \in Slots : ReceiveDocuments(r, ConcDocumentsBodies)
ConcListed == \E r \in Slots : ListReply(r, ConcListReplies)

NextConc ==
  \/ ConcQuery \/ ConcRetrieved \/ ConcCompleted
  \/ ConcUpload \/ ConcUploaded \/ ConcUploadedAgain
  \/ ConcDocuments \/ ConcListed

SpecConc == Init /\ [][NextConc]_vars

\* One /query request over one passage of every length drawn.
PreviewLengths == (0..(PreviewBudget + MaxOver)) \cup {HugeLen}

\* A text of n characters, no two neighbours alike.
TextOfLen(n) == [i \in 1..n |-> Digit(i % 10)]

PreviewChunk(n) ==
  [text |-> Str(TextOfLen(n)), document_id |-> D1, chunk_id |-> Str(<<"k", "1">>),
   score |-> Num(1)]

PreviewReplies ==
  {[kind |-> "dict", json |-> ("chunks" :> JList(<<c>>))] :
     c \in {PreviewChunk(n) : n \in PreviewLengths} \cup {ChunkBare}}

PreviewBodies == {("query" :> <<"q">>) @@ ("client_id" :> <<"a">>)}

PreviewCompletions == {Completion("error", Null), Completion("content", Str(<<"[", "1", "]">>))}

PreviewQuery == \E r \in {1} : ReceiveQuery(r, PreviewBodies)
PreviewRetrieved == \E r \in {1} : RetrieveReply(r, PreviewReplies)
PreviewCompleted == \E r \in {1} : CompletionReply(r, PreviewCompletions)

NextPreview == PreviewQuery \/ PreviewRetrieved \/ PreviewCompleted

SpecPreview == Init /\ [][NextPreview]_vars

\* ------------------------------------------------------------- claims
IsQuery(r) == req[r].endpoint = "query"

\* The calls of request r to the retrieval service.
RagieCalls(r) ==
  {i \in 1..Len(calls[r]) : calls[r][i].svc \in {"retrievals", "documents.post", "documents.get"}}

\* The completion calls of request r.
CompletionCalls(r) == {i \in 1..Len(calls[r]) : calls[r][i].svc = "openai"}

\* C1: whenever the passage sequence a /query request took from the Retrieval
\* Adapter is empty, the request has ended with exactly the canned answer
\* "No relevant information found for your query." and no citation, and it
\* made no completion call.
C1_EmptyRetrievalIsCanned ==
  \A r \in Slots :
    (IsQuery(r) /\ chunks[r].t \in {"list", "null"} /\ chunks[r].items = <<>>) =>
      /\ pc[r] = "done"
      /\ resp[r].status = 200
      /\ resp[r].kind = "answer"
      /\ resp[r].answer = Str(NoInfoText)
      /\ Len(NoInfoText) = 45
      /\ resp[r].citations = <<>>
      /\ CompletionCalls(r) = {}

\* A retrieval that succeeded with an empty chunk list has been answered.
C1_Witness ==
  \E r \in Slots :
    /\ IsQuery(r) /\ pc[r] = "done"
    /\ retrieval[r].kind = "dict" /\ "chunks" \in DOMAIN retrieval[r].json
    /\ chunks[r] = JList(<<>>)

\* C2: when the call of the retrieval service fails (network error, non-2xx
\* status, unparsable body), retrieve_chunks hands back an empty chunk list
\* and /query answers 200 with the canned answer, never an error.
C2_RetrievalFailureIsCanned ==
  \A r \in Slots :
    (IsQuery(r) /\ retrieval[r].kind \in {"neterr", "httperr", "badjson"}) =>
      /\ chunks[r] = JList(<<>>)
      /\ pc[r] = "done"
      /\ resp[r].kind # "error"
      /\ resp[r].status = 200
      /\ resp[r].answer = Str(NoInfoText)
      /\ resp[r].citations = <<>>

\* A retrieval call that met a network error has been answered.
C2_Witness ==
  \E r \in Slots : IsQuery(r) /\ pc[r] = "done" /\ retrieval[r].kind = "neterr"

\* C3: a /query request with a non-empty passage sequence whose completion
\* call raised has ended with HTTP 500 and an error body, never with an answer
\* object.
C3_CompletionFailureIs500 ==
  \A r \in Slots :
    (/\ IsQuery(r)
     /\ chunks[r].t = "list" /\ Len(chunks[r].items) > 0
     /\ \E i \in CompletionCalls(r) : calls[r][i].reply = "error") =>
      /\ pc[r] = "done"
      /\ resp[r].status = 500
      /\ resp[r].kind = "error"

\* A completion call over two passages raised.
C3_Witness ==
  \E r \in Slots :
    /\ IsQuery(r) /\ pc[r] = "done"
    /\ Len(chunks[r].items) = 2
    /\ \E i \in CompletionCalls(r) : calls[r][i].reply = "error"

\* C4: under every interleaving of requests, each call a request makes to the
\* retrieval service (upload, retrieval, listing) carries the partition
\* "client_" followed by the client id of that same request.
C4_CallsCarryOwnScope ==
  \A r \in Slots : \A i \in RagieCalls(r) :
    /\ calls[r][i].partition
         = <<"c", "l", "i", "e", "n", "t", "_">> \o req[r].body["client_id"]
    /\ calls[r][i].client = req[r].body["client_id"]

\* Two requests of different clients wait for the retrieval service at once,
\* one of them for a retrieval.
C4_Witness ==
  \E r1, r2 \in Slots :
    /\ pc[r1] = "retrieving"
    /\ pc[r2] \in {"retrieving", "uploading", "uploading again", "listing"}
    /\ req[r1].body["client_id"] # req[r2].body["client_id"]

\* C5: over all the calls made, two calls for different client ids carry
\* different partitions, two calls for the same client id carry the same
\* partition, and that partition is "client_" followed by the client id.
C5_ScopeInjectiveAndStable ==
  \A r1, r2 \in Slots : \A i \in RagieCalls(r1) : \A j \in RagieCalls(r2) :
    LET x == calls[r1][i]
        y == calls[r2][j]
    IN /\ (x.client # y.client) => (x.partition # y.partition)
       /\ (x.client = y.client) => (x.partition = y.partition)
       /\ SubSeq(x.partition, 1, 7) = <<"c", "l", "i", "e", "n", "t", "_">>
       /\ SubSeq(x.partition, 8, Len(x.partition)) = x.client

\* Calls were made for the client ids "a" and "ab", and one request made two
\* calls for its client.
C5_Witness ==
  /\ \E r1, r2 \in Slots : \E i \in RagieCalls(r1) : \E j \in RagieCalls(r2) :
       calls[r1][i].client = <<"a">> /\ calls[r2][j].client = <<"a", "b">>
  /\ \E r \in Slots : Cardinality(RagieCalls(r)) = 2

\* The passages generate_response was given, and the citations /query returned.
Passages(r) == chunks[r].items
Returned(r) == resp[r].citations

\* /query returned what generate_response returned.
Answered(r) ==
  /\ IsQuery(r) /\ pc[r] = "done" /\ resp[r].kind = "answer"
  /\ chunks[r].t = "list" /\ Len(chunks[r].items) > 0

\* C6: for a passage sequence of length n, generate_response returns n
\* citations; the i-th has id i and the document id, chunk id and score of the
\* i-th passage, in retrieval order whatever the scores.
C6_CitationsFollowPassages ==
  \A r \in Slots :
    Answered(r) =>
      /\ Len(Returned(r)) = Len(Passages(r))
      /\ \A i \in 1..Len(Passages(r)) :
           LET p == Passages(r)[i]
               c == Returned(r)[i]
           IN /\ c.id = i
              /\ ("document_id" \in DOMAIN p) => (c.document_id = p["document_id"])
              /\ ("chunk_id" \in DOMAIN p) => (c.chunk_id = p["chunk_id"])
              /\ ("score" \in DOMAIN p) => (c.score = p["score"])

\* Two passages were cited, the second scoring above the first.
C6_Witness ==
  \E r \in Slots :
    /\ Answered(r)
    /\ Len(Passages(r)) = 2
    /\ "score" \in DOMAIN Passages(r)[1] /\ "score" \in DOMAIN Passages(r)[2]
    /\ Passages(r)[2]["score"].n > Passages(r)[1]["score"].n

IsDigit(c) == c \in {"0", "1", "2", "3", "4", "5", "6", "7", "8", "9"}

DigitValue(c) == CHOOSE d \in 0..9 : Digit(d) = c

RECURSIVE StrToInt(_)
\* The number a string of digits writes.
StrToInt(s) ==
  IF s = <<>> THEN 0
  ELSE 10 * StrToInt(SubSeq(s, 1, Len(s) - 1)) + DigitValue(s[Len(s)])

\* The numbers k of the tokens [k] in a text.
CiteTokens(s) ==
  {StrToInt(SubSeq(s, ij[1] + 1, ij[2] - 1)) :
     ij \in {x \in (1..Len(s)) \X (1..Len(s)) :
               /\ x[1] + 1 < x[2]
               /\ s[x[1]] = "[" /\ s[x[2]] = "]"
               /\ \A k \in (x[1] + 1)..(x[2] - 1) : IsDigit(s[k])}}

\* C7: every token [k] in the answer text of a returned result has
\* 1 <= k <= n, n the number of citations returned with it.
C7_CiteTokensResolve ==
  \A r \in Slots :
    (IsQuery(r) /\ pc[r] = "done" /\ resp[r].kind = "answer" /\ resp[r].answer.t = "str") =>
      \A k \in CiteTokens(resp[r].answer.s) : 1 <= k /\ k <= Len(Returned(r))

\* C8: a /query request whose query text is empty, or whose client id is
\* missing, makes no call to the retrieval service or the language model and
\* ends rejected.
C8_InvalidInputRejected ==
  \A r \in Slots :
    (/\ IsQuery(r)
     /\ \/ "client_id" \notin DOMAIN req[r].body
        \/ ("query" \in DOMAIN req[r].body /\ req[r].body["query"] = <<>>)) =>
      /\ calls[r] = <<>>
      /\ pc[r] = "done"
      /\ resp[r].kind = "error"

\* The passage has no page number: no key, a null, or a blank string.
NoPageNumber(p) ==
  \/ "page_number" \notin DOMAIN p
  \/ p["page_number"].t = "null"
  \/ (p["page_number"].t = "str" /\ p["page_number"].s = <<>>)

\* C9: the citation of a passage with no page number (no key, null or blank)
\* has page_number "N/A", and no citation has a null or empty page_number.
C9_MissingPageIsNA ==
  \A r \in Slots :
    Answered(r) =>
      \A i \in 1..Len(Passages(r)) :
        LET c == Returned(r)[i]
        IN /\ NoPageNumber(Passages(r)[i]) => (c.page_number = Str(<<"N", "/", "A">>))
           /\ c.page_number.t # "null"
           /\ ~(c.page_number.t = "str" /\ c.page_number.s = <<>>)

\* The top_k of a valid /query request.
TopK(r) == IF "top_k" \in DOMAIN req[r].body THEN req[r].body["top_k"] ELSE 8

\* The request got past retrieval with a chunk list in hand.
Retrieved_(r) ==
  /\ IsQuery(r) /\ pc[r] \in {"completing", "done"}
  /\ retrieval[r].kind # "none" /\ chunks[r].t # "unset"

\* C10 as stated: the passage sequence handed to the orchestrator, and the
\* citation list returned, are never longer than top_k.
C10_AtMostTopK ==
  \A r \in Slots :
    Retrieved_(r) =>
      /\ Len(Passages(r)) <= TopK(r)
      /\ Len(Returned(r)) <= TopK(r)

\* The chunk list of the service's reply: its "chunks", else its
\* "scored_chunks", else nothing; nothing when the call failed.
ReplyChunks(reply) ==
  IF reply.kind # "dict" THEN JList(<<>>)
  ELSE IF "chunks" \in DOMAIN reply.json THEN reply.json["chunks"]
  ELSE IF "scored_chunks" \in DOMAIN reply.json THEN reply.json["scored_chunks"]
  ELSE JList(<<>>)

\* C10 amended: the retrieval call carries the request's top_k, the passage
\* sequence handed to the orchestrator is the chunk list of the service's reply
\* unchanged (empty when the call failed), and the citation list returned has
\* one entry per passage; so the length is at most top_k whenever the reply
\* holds at most top_k chunks.
C10_LengthIsTheReplys ==
  \A r \in Slots :
    Retrieved_(r) =>
      /\ calls[r][1].svc = "retrievals" /\ calls[r][1].top_k = TopK(r)
      /\ chunks[r] = ReplyChunks(retrieval[r])
      /\ Answered(r) => Len(Returned(r)) = Len(ReplyChunks(retrieval[r]).items)
      /\ (Len(ReplyChunks(retrieval[r]).items) <= TopK(r)) => (Len(Passages(r)) <= TopK(r))

\* A request with top_k 1 was answered with the two chunks of the reply.
C10_Witness ==
  \E r \in Slots :
    /\ Answered(r) /\ TopK(r) = 1
    /\ Len(ReplyChunks(retrieval[r]).items) = 2
    /\ Len(Returned(r)) = 2

\* The citations built so far for request r, returned or not.
Built(r) == citations[r]

\* C11: the preview text of every citation built has at most 103 characters
\* (the budget of 100 and the 3 of the marker), whatever the length of the
\* passage, 0 and 10,000 included.
C11_PreviewAtMost103 ==
  \A r \in Slots :
    /\ \A i \in 1..Len(Built(r)) :
         Built(r)[i].text.t = "str" /\ Len(Built(r)[i].text.s) <= 103
    /\ \A i \in 1..Len(Returned(r)) :
         Returned(r)[i].text.t = "str" /\ Len(Returned(r)[i].text.s) <= 103

\* A passage of 10,000 characters was cited and returned.
C11_Witness ==
  \E r \in Slots :
    /\ Answered(r)
    /\ "text" \in DOMAIN Passages(r)[1]
    /\ Len(Passages(r)[1]["text"].s) = 10000
    /\ Len(Returned(r)) = 1

\* A citation whose fields have the types AnswerResult declares.
WellFormedCitation(c) ==
  /\ c.id \in Nat
  /\ c.document_id.t = "str" /\ c.chunk_id.t = "str"
  /\ c.text.t = "str" /\ c.page_number.t = "str"
  /\ c.score.t = "num"

\* C12: a /query request that has ended has either an explicit failure (an
\* error status and body) or a well-formed AnswerResult: a string answer and
\* citations whose fields have the declared types.
C12_AnswerOrFailure ==
  \A r \in Slots :
    (IsQuery(r) /\ pc[r] = "done") =>
      \/ resp[r].kind = "error" /\ resp[r].status >= 400
      \/ /\ resp[r].kind = "answer" /\ resp[r].status = 200
         /\ resp[r].answer.t = "str"
         /\ \A i \in 1..Len(Returned(r)) : WellFormedCitation(Returned(r)[i])

\* Every passage of the sequence has a text that is a string, or no text.
TextsAreStrings(ps) ==
  \A i \in 1..Len(ps) : ("text" \in DOMAIN ps[i]) => ps[i]["text"].t = "str"

\* The request holds a non-empty passage sequence.
HasPassages(r) ==
  /\ IsQuery(r) /\ pc[r] \in {"completing", "done"}
  /\ chunks[r].t = "list" /\ Len(chunks[r].items) > 0

\* C13 as stated: every /query request with a non-empty passage sequence
\* issues exactly one completion call.
C13_ExactlyOneCompletion ==
  \A r \in Slots : HasPassages(r) => Cardinality(CompletionCalls(r)) = 1

\* C13 amended: a /query request issues at most one completion call, after its
\* retrieval call has returned and with the one fixed system instruction; with
\* a non-empty passage sequence it issues exactly one when every passage's text
\* is a string (or missing), and none, ending 500, when one is not.
C13_OneCompletionAfterRetrieval ==
  \A r \in Slots :
    /\ Cardinality(CompletionCalls(r)) <= 1
    /\ \A i \in CompletionCalls(r) :
         /\ i = 2
         /\ calls[r][1].svc = "retrievals" /\ calls[r][1].reply # "pending"
         /\ calls[r][i].file
              = "answer from the context, cite as [n], say when the answer is not there"
         /\ HasPassages(r)
    /\ (HasPassages(r) /\ TextsAreStrings(Passages(r))) =>
         Cardinality(CompletionCalls(r)) = 1
    /\ (HasPassages(r) /\ ~TextsAreStrings(Passages(r))) =>
         CompletionCalls(r) = {} /\ pc[r] = "done" /\ resp[r].status = 500

\* A request with a question and two passages waits for its one completion.
C13_Witness ==
  \E r \in Slots :
    /\ HasPassages(r) /\ pc[r] = "completing"
    /\ Len(Passages(r)) = 2
    /\ req[r].body["query"] = <<"q">>
    /\ Cardinality(CompletionCalls(r)) = 1

\* The text of a passage as the prompt shows it: nothing when it has no text.
PassageText(p) == IF "text" \in DOMAIN p THEN p["text"].s ELSE <<>>

\* C14: in every completion call, the i-th context block is "[i] " followed by
\* the text of passage i, and the citation with id i has the chunk id, the
\* document id and the preview of that same passage i.
C14_ContextMatchesCitations ==
  \A r \in Slots : \A n \in CompletionCalls(r) :
    LET blocks == calls[r][n].context
        ps == Passages(r)
    IN /\ Len(blocks) = Len(ps)
       /\ Len(Built(r)) = Len(ps)
       /\ \A i \in 1..Len(ps) :
            /\ blocks[i] = <<"[">> \o IntToStr(i) \o <<"]", " ">> \o PassageText(ps[i])
            /\ Built(r)[i].id = i
            /\ Built(r)[i].chunk_id = Get(ps[i], "chunk_id", Null)
            /\ Built(r)[i].document_id = Get(ps[i], "document_id", Null)
            /\ SubSeq(blocks[i], 5, Min(Len(blocks[i]), 104))
                 = SubSeq(Built(r)[i].text.s, 1, Len(Built(r)[i].text.s) - 3)

\* The prompt holds two different passages, the long one second.
C14_Witness ==
  \E r \in Slots : \E n \in CompletionCalls(r) :
    /\ Len(calls[r][n].context) = 2
    /\ Passages(r)[1] = ChunkFull /\ Passages(r)[2] = ChunkLong

\* Everything request r holds comes from its own body and the replies to its
\* own calls: its partitions from its client id, its chunks from its retrieval
\* reply, its prompt and citations from its chunks, its answer's citations
\* from its citations.
OwnOnly(r) ==
  /\ \A i \in RagieCalls(r) :
       calls[r][i].partition
         = <<"c", "l", "i", "e", "n", "t", "_">> \o req[r].body["client_id"]
  /\ Retrieved_(r) => chunks[r] = ReplyChunks(retrieval[r])
  /\ \A n \in CompletionCalls(r) :
       /\ calls[r][n].client = req[r].body["client_id"]
       /\ calls[r][n].query = req[r].body["query"]
       /\ Len(calls[r][n].context) = Len(Passages(r))
       /\ \A i \in 1..Len(Passages(r)) :
            SubSeq(calls[r][n].context[i], 5, Len(calls[r][n].context[i]))
              = PassageText(Passages(r)[i])
       /\ Len(Built(r)) = Len(Passages(r))
       /\ \A i \in 1..Len(Passages(r)) :
            Built(r)[i].chunk_id = Get(Passages(r)[i], "chunk_id", Null)
  /\ Answered(r) =>
       /\ Len(Returned(r)) = Len(Passages(r))
       /\ \A i \in 1..Len(Passages(r)) :
            /\ Returned(r)[i].chunk_id = Get(Passages(r)[i], "chunk_id", Null)
            /\ Returned(r)[i].document_id = Get(Passages(r)[i], "document_id", Null)

\* The step writes the state of one request only, and no state of the process.
WritesOneRequest ==
  /\ cfgOk' = cfgOk
  /\ \E r \in Slots : \A o \in Slots \ {r} :
       /\ pc'[o] = pc[o] /\ req'[o] = req[o] /\ calls'[o] = calls[o]
       /\ retrieval'[o] = retrieval[o] /\ chunks'[o] = chunks[o]
       /\ citations'[o] = citations[o] /\ resp'[o] = resp[o]

\* C15: with several requests in flight, every step of every interleaving
\* writes the state of one request only, and after it the scope, passages,
\* citations and answer of each request still come from that request's own
\* inputs and the replies to its own calls.
C15_RequestsIndependent ==
  [][WritesOneRequest /\ (\A r \in Slots : OwnOnly(r))']_vars

\* Two queries of different clients hold different passages; one is answered
\* while the other waits for its completion.
C15_Witness ==
  \E r1, r2 \in Slots :
    /\ Answered(r1)
    /\ IsQuery(r2) /\ pc[r2] = "completing"
    /\ Passages(r1) # Passages(r2)
    /\ req[r1].body["client_id"] # req[r2].body["client_id"]

IsUpload(r) == req[r].endpoint = "upload"

\* The extension of the file of an upload: the lower-cased characters after
\* the last dot of its name, the whole name when it has no dot.
UploadExtension(r) ==
  LET name == req[r].body["filename"]
      dots == {i \in 1..Len(name) : name[i] = "."}
      from == IF dots = {} THEN 1 ELSE 1 + CHOOSE i \in dots : \A j \in dots : j <= i
  IN [i \in 1..(Len(name) - from + 1) |->
        CASE name[from + i - 1] = "P" -> "p" [] name[from + i - 1] = "D" -> "d"
          [] name[from + i - 1] = "F" -> "f" [] OTHER -> name[from + i - 1]]

\* C16: an /upload request (valid form, valid configuration) whose file
\* extension is not pdf, docx, csv or txt is answered with status 400 and makes
\* no upload call.
C16_UnsupportedTypeIs400 ==
  \A r \in Slots :
    (/\ IsUpload(r) /\ cfgOk
     /\ {"filename", "client_id"} \subseteq DOMAIN req[r].body
     /\ UploadExtension(r) \notin
          {<<"p", "d", "f">>, <<"d", "o", "c", "x">>, <<"c", "s", "v">>, <<"t", "x", "t">>}) =>
      /\ pc[r] = "done"
      /\ resp[r].status = 400
      /\ calls[r] = <<>>

\* The preview the fixed policy gives a passage: the first 100 characters of
\* its text (all of a shorter one, none of a missing one), then "...".
PolicyPreview(p) ==
  LET t == PassageText(p)
  IN SubSeq(t, 1, IF Len(t) < 100 THEN Len(t) ELSE 100) \o <<".", ".", ".">>

\* C17: the preview of every citation built is the first 100 characters of
\* the passage text followed by "...", the marker appended for every passage:
\* longer than 100, shorter, empty or without a text.
C17_PreviewPolicy ==
  \A r \in Slots : \A i \in 1..Len(Built(r)) :
    /\ Built(r)[i].text = Str(PolicyPreview(Passages(r)[i]))
    /\ SubSeq(Built(r)[i].text.s, Len(Built(r)[i].text.s) - 2, Len(Built(r)[i].text.s))
         = <<".", ".", ".">>

\* A passage of 42 characters was cited with a preview of 45.
C17_Witness ==
  \E r \in Slots :
    /\ Len(Built(r)) = 1
    /\ "text" \in DOMAIN Passages(r)[1]
    /\ Len(Passages(r)[1]["text"].s) = 42
    /\ Len(Built(r)[1].text.s) = 45

\* The upload calls of request r that raised in upload_document.
Raised(r, i) == calls[r][i].reply \in {"neterr", "httperr", "badjson"}

\* C18: an /upload request makes at most two upload calls, the first with the
\* file object and the second with the raw bytes; the second is made only
\* after the first raised; when the second raises too the request ends 500
\* with no further call; when the first returns the request ends 200 after
\* that one call.
C18_AtMostTwoUploads ==
  \A r \in Slots :
    IsUpload(r) =>
      /\ Len(calls[r]) <= 2
      /\ \A i \in 1..Len(calls[r]) : calls[r][i].svc = "documents.post"
      /\ Len(calls[r]) >= 1 => calls[r][1].file = "file object"
      /\ Len(calls[r]) = 2 => (Raised(r, 1) /\ calls[r][2].file = "raw bytes")
      /\ (Len(calls[r]) = 2 /\ Raised(r, 2)) => (pc[r] = "done" /\ resp[r].status = 500)
      /\ (Len(calls[r]) >= 1 /\ calls[r][1].reply = "ok") =>
           (Len(calls[r]) = 1 /\ pc[r] = "done" /\ resp[r].status = 200)

\* Both upload calls of a request raised and it ended 500.
C18_Witness ==
  \E r \in Slots :
    /\ IsUpload(r) /\ pc[r] = "done"
    /\ Len(calls[r]) = 2 /\ Raised(r, 1) /\ Raised(r, 2)
    /\ resp[r].status = 500

====
